---- MODULE Spec2Model ----
(***************************************************************************)
(* AURORA API (src/api/main.py): CSV ingestion into the warehouse, the     *)
(* naive price forecast and the greedy storage-arbitrage optimiser.        *)
(*                                                                         *)
(* Numbers.  The handlers compute in IEEE-754 binary floating point.  The  *)
(* model keeps that arithmetic, at a reduced size: a float is an integer   *)
(* count of quanta of 2^-FracBits with at most Precision significant bits, *)
(* and every operation rounds its exact result to the nearest such value,  *)
(* ties to even (gradual underflow below the quantum's normal range).      *)
(* Timestamps are whole minutes.                                           *)
(***************************************************************************)
EXTENDS Integers, Sequences, FiniteSets, TLC

(* ------------------------------ bounds -------------------------------- *)
Precision == 5          \* significant bits of a float of the model
FracBits == 20          \* a float is a multiple of 2^-FracBits (so 1e-6 is not 0)
MaxHorizon == 12        \* largest horizon a request asks for

(* ------------------------- program constants -------------------------- *)
MinRows == 32           \* len(df) < 32
Window == 96            \* rolling(96, min_periods=1)
FallbackMinutes == 15   \* pd.Timedelta(minutes=15)
TopN == 5               \* windows[:5]

(* --------------------------- float arithmetic ------------------------- *)
Abs(n) == IF n < 0 THEN -n ELSE n
Sgn(n) == IF n < 0 THEN -1 ELSE 1
Max2(a, b) == IF a >= b THEN a ELSE b
Min2(a, b) == IF a <= b THEN a ELSE b

RECURSIVE Lg(_)
\* floor(log2 n) for n >= 1, 0 for n = 0
Lg(n) ==
  IF n < 2 THEN 0
  ELSE IF n >= 65536 THEN 16 + Lg(n \div 65536)
  ELSE IF n >= 256 THEN 8 + Lg(n \div 256)
  ELSE IF n >= 16 THEN 4 + Lg(n \div 16)
  ELSE 1 + Lg(n \div 2)

\* num/den (num >= 0, den > 0) to the nearest integer, ties to even
RNE(num, den) ==
  LET q == num \div den
      r == num % den
  IN IF 2 * r > den \/ (2 * r = den /\ q % 2 = 1) THEN q + 1 ELSE q

\* floor(log2(num/den)) for num, den >= 1
LgBelow(num, den, l0) ==
  IF (IF l0 >= 0 THEN num < den * 2^l0 ELSE num * 2^(-l0) < den) THEN l0 - 1 ELSE l0
LgRat(num, den) == LgBelow(num, den, Lg(num) - Lg(den))

\* the float nearest to num * 2^sh / den quanta (num >= 0, den > 0)
\* ... given k, the exponent of the result's last place
RoundTo(num, den, sh, k) ==
  IF sh - k >= 0
  THEN RNE(num * 2^(sh - k), den) * 2^k
  ELSE RNE(num, den * 2^(k - sh)) * 2^k
\* ... given L, floor(log2) of the exact value in quanta
RoundAt(num, den, sh, L) ==
  IF L < -1 THEN 0 ELSE RoundTo(num, den, sh, Max2(0, L - (Precision - 1)))
RoundQ(num, den, sh) ==
  IF num = 0 THEN 0 ELSE RoundAt(num, den, sh, LgRat(num, den) + sh)

\* mantissa and exponent of a float: |x| = Mant(x) * 2^Expo(x) quanta
Expo(x) == Max2(0, Lg(Abs(x)) - (Precision - 1))
Mant(x) == Abs(x) \div 2^Expo(x)

\* the float nearest to the rational num/den (a decimal literal, a JSON number)
FromRat(num, den) == Sgn(num) * RoundQ(Abs(num), den, FracBits)
FromInt(n) == FromRat(n, 1)

Fadd(a, b) == Sgn(a + b) * RoundQ(Abs(a + b), 1, 0)
Fsub(a, b) == Fadd(a, -b)
Fmul(a, b) ==
  Sgn(a) * Sgn(b) * RoundQ(Mant(a) * Mant(b), 1, Expo(a) + Expo(b) - FracBits)
\* b # 0
Fdiv(a, b) ==
  Sgn(a) * Sgn(b) * RoundQ(Mant(a), Mant(b), Expo(a) - Expo(b) + FracBits)

RECURSIVE ISqrt(_, _, _)
\* the largest s + j*bit (j >= 0) whose square is at most n, bit a power of 2
ISqrt(n, s, bit) ==
  IF bit = 0 THEN s
  ELSE ISqrt(n, IF (s + bit) * (s + bit) <= n THEN s + bit ELSE s, bit \div 2)

\* the float nearest to sqrt(a), a >= 0
Fsqrt(a) ==
  IF a = 0 THEN 0
  ELSE LET e == Expo(a) + FracBits
           odd == e % 2
           m == Mant(a) * (IF odd = 1 THEN 2 ELSE 1)
           n == m * 4^Precision
           s == ISqrt(n, 0, 2^(2 * Precision))
           sticky == IF s * s = n THEN 0 ELSE 1
       IN RoundQ(2 * s + sticky, 2, (e - odd) \div 2 - Precision)

\* round(x, d) of a float: the nearest multiple of 10^-d, as a float
RoundDec(x, d) ==
  LET e == Expo(x)
      k == IF e >= FracBits THEN Mant(x) * 10^d * 2^(e - FracBits)
           ELSE RNE(Mant(x) * 10^d, 2^(FracBits - e))
  IN Sgn(x) * RoundQ(k, 10^d, FracBits)

\* np.clip(x, 0, None)
Clip0(x) == Max2(x, 0)

(* ------------------------------ the data ------------------------------ *)
REQUIRED == [price   |-> {"ts", "price_per_mwh", "zone"},
             demand  |-> {"ts", "mw", "zone"},
             weather |-> {"ts", "temp_c", "wind_ms", "irradiance_wm2"}]

DatasetNames == {"price", "demand", "weather", "tariff"}
Zones == {"Z1", "Z2", "Z9"}

Row(ts, price, zone) == [ts |-> ts, price_per_mwh |-> price, zone |-> zone]
PriceCsv(rows) == [present |-> TRUE, cols |-> REQUIRED.price, rows |-> rows]

\* 32 rows of Z1 every 15 minutes, all at 50.0
Flat50 == PriceCsv([i \in 1..32 |-> Row(15 * i, FromInt(50), "Z1")])
\* 32 rows of Z1 every 15 minutes, all at 0.0
Zero == PriceCsv([i \in 1..32 |-> Row(15 * i, 0, "Z1")])
\* 32 hourly rows of Z1, 2.0 and 4.0 in turn, newest row first in the file
AltHourly ==
  PriceCsv([i \in 1..32 |->
             Row(60 * (33 - i), FromInt(IF i % 2 = 0 THEN 2 ELSE 4), "Z1")])
\* 31 rows of Z1 and 2 rows of Z2
Short31 ==
  PriceCsv([i \in 1..33 |->
             Row(15 * i, FromInt(3), IF i \in {5, 20} THEN "Z2" ELSE "Z1")])
\* 32 rows of Z1 every 30 minutes, all at -8.0
Negative == PriceCsv([i \in 1..32 |-> Row(30 * i, FromInt(-8), "Z1")])
\* 32 rows of Z1 whose two newest rows share a timestamp
DupTail ==
  PriceCsv([i \in 1..32 |->
             Row(15 * Min2(i, 31), FromInt(IF i % 2 = 0 THEN 1 ELSE 3), "Z1")])
\* 97 rows of Z1 every 15 minutes: the oldest at 40.0, the 96 newest at 2.0
Long97 ==
  PriceCsv([i \in 1..97 |-> Row(15 * i, FromInt(IF i = 1 THEN 40 ELSE 2), "Z1")])
\* 32 rows of Z1 every 15 minutes and 32 rows of Z2 every 60 minutes, interleaved
TwoZones ==
  PriceCsv([i \in 1..64 |->
             IF i % 2 = 1 THEN Row(15 * ((i + 1) \div 2), FromInt(1), "Z1")
             ELSE Row(60 * (i \div 2), FromInt(IF i % 4 = 0 THEN 6 ELSE 2), "Z2")])
\* a weather file: no zone column
WeatherCsv == [present |-> TRUE, cols |-> REQUIRED.weather, rows |-> << >>]

NoFile == [present |-> FALSE, cols |-> {}, rows |-> << >>]

\* the files a client uploads, by name
Uploads == [flat50 |-> Flat50, zero |-> Zero, althourly |-> AltHourly,
            short31 |-> Short31, negative |-> Negative, duptail |-> DupTail,
            long97 |-> Long97, twozones |-> TwoZones, weather |-> WeatherCsv,
            none |-> NoFile]
FileIds == DOMAIN Uploads \ {"none"}

\* the quantised normal deviates a generator may yield
ZVals == {-(2^FracBits), 0, 2^FracBits}
StreamPeriod == 4       \* the generator's output repeats after this many draws

VARIABLES
  warehouse,    \* warehouse/price.csv: the name of the upload it holds, or "none"
  stream,       \* the standard normal deviates a generator seeded 42 yields
  np_random,    \* numpy's process-global generator: how many deviates it has drawn
  pc,           \* the request being served: "idle", "loop", "windows", "done"
  req,          \* optimize_storage's locals
  resp,         \* the response of the request just served
  ref           \* an earlier forecast response, kept for comparison

vars == <<warehouse, stream, np_random, pc, req, resp, ref>>

(* ---------------------------- forecast_price -------------------------- *)
\* (a variant: the limit taken one row too high)
InsufficientAt32(n) == n <= MinRows
\* len(df) < 32
Insufficient(n) == n < MinRows

\* df[df["zone"] == zone].sort_values("ts")
ZoneRows(df, zone) ==
  SortSeq(SelectSeq(df.rows, LAMBDA r : r.zone = zone), LAMBDA a, b : a.ts < b.ts)

RECURSIVE ISum(_, _, _)
\* xs[lo] + ... + xs[hi] of integers, by halves
ISum(xs, lo, hi) ==
  IF lo > hi THEN 0
  ELSE IF lo = hi THEN xs[lo]
  ELSE LET mid == (lo + hi) \div 2 IN ISum(xs, lo, mid) + ISum(xs, mid + 1, hi)

\* the float nearest to the mean of the floats xs (pandas' rolling sums are
\* compensated: the window's sum carries no rounding error of its own)
Mean(xs) ==
  LET expos == {Expo(xs[i]) : i \in {j \in 1..Len(xs) : xs[j] # 0}}
      e0 == IF expos = {} THEN 0 ELSE CHOOSE e \in expos : \A f \in expos : e <= f
      scaled == [i \in 1..Len(xs) |-> Sgn(xs[i]) * Mant(xs[i]) * 2^(Expo(xs[i]) - e0)]
      total == ISum(scaled, 1, Len(xs))
  IN Sgn(total) * RoundQ(Abs(total), Len(xs), e0)

\* the last min(Window, n) prices
LastWindow(rows) ==
  LET n == Len(rows)
      w == Min2(Window, n)
  IN [i \in 1..w |-> rows[n - w + i].price_per_mwh]

\* rolling(96, min_periods=1).mean().iloc[-1]
RollingMean(rows) == Mean(LastWindow(rows))

\* rolling(96, min_periods=1).std(ddof=0).fillna(0).iloc[-1]
RollingStd(rows) ==
  LET xs == LastWindow(rows)
      m == Mean(xs)
      sq == [i \in 1..Len(xs) |-> Fmul(Fsub(xs[i], m), Fsub(xs[i], m))]
  IN Fsqrt(Mean(sq))

\* The uploads are a fixed set: each one's zone history and its rolling
\* statistics are tabulated once.
History == [f \in DOMAIN Uploads |-> [z \in Zones |-> ZoneRows(Uploads[f], z)]]
BaseOf == [f \in DOMAIN Uploads |-> [z \in Zones |-> RollingMean(History[f][z])]]
VolOf == [f \in DOMAIN Uploads |-> [z \in Zones |-> RollingStd(History[f][z])]]

\* the cadence: the gap between the two newest rows, 15 minutes when it is zero
InferStep(rows) ==
  LET step == rows[Len(rows)].ts - rows[Len(rows) - 1].ts
  IN IF step = 0 THEN FallbackMinutes ELSE step

\* (a variant: the first point placed on the newest row)
FutureTsFromLast(last_ts, step, horizon) ==
  [i \in 0..(horizon - 1) |-> last_ts + i * step]
\* [last_ts + (i+1)*step for i in range(horizon)]
FutureTs(last_ts, step, horizon) ==
  [i \in 0..(horizon - 1) |-> last_ts + (i + 1) * step]

\* the k-th deviate a generator yields after it has drawn pos
Deviate(s, pos, k) == s[((pos + k - 1) % StreamPeriod) + 1]

\* (a variant: np.random.normal, drawn from the process-global generator)
DrawNoiseGlobal(s, g, sd, horizon) ==
  [noise |-> [i \in 0..(horizon - 1) |-> Fadd(0, Fmul(sd, Deviate(s, g, i + 1)))],
   g |-> (g + horizon) % StreamPeriod]
\* rng = np.random.default_rng(42); rng.normal(0, sd, size=horizon):
\* the noise, and the state the process-global generator is left in
DrawNoise(s, g, sd, horizon) ==
  [noise |-> [i \in 0..(horizon - 1) |-> Fadd(0, Fmul(sd, Deviate(s, 0, i + 1)))],
   g |-> g]

\* the literals of the forecast, as floats
NoiseFloor == FromRat(1, 100)
BandFactor == FromRat(7, 10)
One == FromInt(1)

P50(base, noise) == Clip0(Fadd(base, noise))
Band(vol) == Fmul(BandFactor, Max2(vol, One))
\* (a variant: the lower band left unclamped)
P10Unclamped(p50, vol) == Fsub(p50, Band(vol))
P10(p50, vol) == Clip0(Fsub(p50, Band(vol)))
P90(p50, vol) == Fadd(p50, Band(vol))

\* t.isoformat(): date, hour and minute, compared field by field like the text
IsoFormat(t) == <<t \div 1440, (t % 1440) \div 60, t % 60>>

\* raise HTTPException(status, detail), or an exception nothing catches (500)
Failure(status, detail, g) ==
  [status |-> status, body |-> [detail |-> detail], g |-> g]

\* lines 80-81: one point of the response
Point(t, p50, vol) ==
  [ts |-> IsoFormat(t), p10 |-> P10(p50, vol), p50 |-> p50, p90 |-> P90(p50, vol)]

\* lines 68-82: the forecast of a zone history rows, base and vol its rolling
\* mean and deviation
Predict(rows, base, vol, horizon, zone, s, g) ==
  LET future_ts == FutureTs(rows[Len(rows)].ts, InferStep(rows), horizon)
      drawn == DrawNoise(s, g, Max2(vol, NoiseFloor), horizon)
      out == [i \in 1..horizon |->
               Point(future_ts[i - 1], P50(base, drawn.noise[i - 1]), vol)]
  IN [status |-> 200, body |-> [zone |-> zone, points |-> out], g |-> drawn.g]

forecast_price(wh, horizon, zone, s, g) ==
  IF ~Uploads[wh].present THEN Failure(400, "price.csv not found", g)
  ELSE IF "zone" \notin Uploads[wh].cols THEN Failure(500, "KeyError", g)
  ELSE IF Insufficient(Len(History[wh][zone]))
  THEN Failure(400, "Not enough price rows", g)
  ELSE IF horizon < 0 THEN Failure(500, "ValueError", g)
  ELSE Predict(History[wh][zone], BaseOf[wh][zone], VolOf[wh][zone],
               horizon, zone, s, g)

NoResp == [op |-> "none"]
NoReq == [zone |-> ""]

Init ==
  /\ warehouse = "none"
  /\ stream \in [1..StreamPeriod -> ZVals]
  /\ np_random = 0
  /\ pc = "idle"
  /\ req = NoReq
  /\ resp = NoResp
  /\ ref = NoResp

\* GET /forecast/price
Forecast(horizon, zone) ==
  /\ pc = "idle"
  /\ \E out \in {forecast_price(warehouse, horizon, zone, stream, np_random)} :
       /\ resp' = [op |-> "forecast", file |-> warehouse, horizon |-> horizon,
                   zone |-> zone, status |-> out.status, body |-> out.body]
       /\ np_random' = out.g
  /\ pc' = "done"
  /\ UNCHANGED <<warehouse, stream, req, ref>>

\* POST /ingest/{name}: the upload is written before it is checked.  Only
\* price.csv is ever read back, so the other datasets' files are not kept.
Ingest(name, file) ==
  /\ pc = "idle"
  /\ IF name \notin DOMAIN REQUIRED
       THEN /\ resp' = [op |-> "ingest", status |-> 400,
                        body |-> [detail |-> "invalid dataset"]]
            /\ UNCHANGED warehouse
       ELSE /\ warehouse' = IF name = "price" THEN file ELSE warehouse
            /\ LET df == Uploads[file]
                    missing == REQUIRED[name] \ df.cols
                IN resp' = IF missing # {}
                           THEN [op |-> "ingest", status |-> 400,
                                 body |-> [detail |-> "Missing columns"]]
                           ELSE [op |-> "ingest", status |-> 200,
                                 body |-> [status |-> "ok", rows |-> Len(df.rows)]]
  /\ pc' = "done"
  /\ UNCHANGED <<stream, np_random, req, ref>>

(* --------------------------- optimize_storage ------------------------- *)
\* the literals of the optimiser, as floats
step_h == FromRat(1, 4)
Epsilon == FromRat(1, 1000000)
LowRank == FromRat(3, 10)
HighRank == FromRat(7, 10)
Thousand == FromInt(1000)

\* a request body: every number a JSON number, read with float()
Body(cap, power, lo, hi, ein, eout) ==
  [capacity_mwh |-> cap, power_mw |-> power, min_soc |-> lo, max_soc |-> hi,
   eta_in |-> ein, eta_out |-> eout]
DefaultBody ==
  Body(FromInt(2), One, FromRat(1, 10), FromRat(9, 10), FromRat(95, 100),
       FromRat(95, 100))

SeqMin(xs) == CHOOSE x \in {xs[i] : i \in DOMAIN xs} : \A i \in DOMAIN xs : x <= xs[i]
SeqMax(xs) == CHOOSE x \in {xs[i] : i \in DOMAIN xs} : \A i \in DOMAIN xs : x >= xs[i]

\* (prices[t] - prices.min()) / (prices.ptp() + 1e-6)
Rank(prices, t) ==
  Fdiv(Fsub(prices[t + 1], SeqMin(prices)),
       Fadd(Fsub(SeqMax(prices), SeqMin(prices)), Epsilon))

ChargeSignal(rank) == rank < LowRank
\* (a variant: the comparison turned round)
DischargeSignalBelow(rank) == rank < HighRank
DischargeSignal(rank) == rank > HighRank

\* min(pmax, (max_s - soc)/eta_i/step_h), eta_i # 0
ChargePower(r) ==
  Min2(r.pmax, Fdiv(Fdiv(Fsub(r.max_s, r.soc), r.eta_i), step_h))
\* min(pmax, (soc - min_s)/step_h)
DischargePower(r) == Min2(r.pmax, Fdiv(Fsub(r.soc, r.min_s), step_h))

\* POST /optimize/storage, lines 90-107: the body is read, the forecast is
\* made, the simulation's locals are set
OptimizeStart(body, horizon, zone) ==
  /\ pc = "idle"
  /\ \E f \in {forecast_price(warehouse, horizon, zone, stream, np_random)} :
       /\ np_random' = f.g
       /\ IF f.status # 200
          THEN /\ pc' = "done"
               /\ req' = NoReq
               /\ resp' = [op |-> "optimize", file |-> warehouse,
                           horizon |-> horizon, zone |-> zone, status |-> f.status,
                           body |-> f.body]
          ELSE /\ pc' = "loop"
               /\ resp' = NoResp
               /\ req' = [body |-> body, zone |-> zone, horizon |-> horizon,
                          cap |-> body.capacity_mwh,
                          pmax |-> body.power_mw,
                          min_s |-> Fmul(body.min_soc, body.capacity_mwh),
                          max_s |-> Fmul(body.max_soc, body.capacity_mwh),
                          eta_i |-> body.eta_in,
                          eta_o |-> body.eta_out,
                          f |-> f.body.points,
                          prices |-> [i \in 1..Len(f.body.points) |->
                                       f.body.points[i].p50],
                          n |-> Len(f.body.points),
                          soc |-> Fmul(body.min_soc, body.capacity_mwh),
                          actions |-> << >>,
                          pnl |-> 0,
                          t |-> 0,
                          windows |-> << >>,
                          i |-> 0]
  /\ UNCHANGED <<warehouse, stream, ref>>

\* lines 109-126: one pass of the loop over the forecast's steps
LoopStep ==
  /\ pc = "loop"
  /\ req.t < req.n
  /\ LET price == req.prices[req.t + 1]
         rank == Rank(req.prices, req.t)
     IN IF ChargeSignal(rank) /\ req.soc < req.max_s
        THEN IF req.eta_i = 0
             THEN \* ZeroDivisionError: the request dies with a 500
                  /\ pc' = "done"
                  /\ resp' = [op |-> "optimize", file |-> warehouse,
                              horizon |-> req.horizon, zone |-> req.zone,
                              status |-> 500,
                              body |-> [detail |-> "ZeroDivisionError"]]
                  /\ req' = req
             ELSE LET power == ChargePower(req)
                      e == Fmul(power, step_h)
                      cost == Fmul(e, price)
                  IN /\ req' = [req EXCEPT
                                  !.soc = Fadd(req.soc, Fmul(e, req.eta_i)),
                                  !.actions = Append(@, [t |-> req.t,
                                                         action |-> "charge",
                                                         mw |-> RoundDec(power, 3),
                                                         price |-> RoundDec(price, 2)]),
                                  !.pnl = Fsub(req.pnl, cost),
                                  !.t = req.t + 1]
                     /\ UNCHANGED <<pc, resp>>
        ELSE IF DischargeSignal(rank) /\ req.soc > req.min_s
        THEN LET power == DischargePower(req)
                 e == Fmul(power, step_h)
                 revenue == Fmul(Fmul(e, price), req.eta_o)
             IN /\ req' = [req EXCEPT
                             !.soc = Fsub(req.soc, e),
                             !.actions = Append(@, [t |-> req.t,
                                                    action |-> "discharge",
                                                    mw |-> RoundDec(power, 3),
                                                    price |-> RoundDec(price, 2)]),
                             !.pnl = Fadd(req.pnl, revenue),
                             !.t = req.t + 1]
                /\ UNCHANGED <<pc, resp>>
        ELSE /\ req' = [req EXCEPT !.t = req.t + 1]
             /\ UNCHANGED <<pc, resp>>
  /\ UNCHANGED <<warehouse, stream, np_random, ref>>

\* the loop is over: lines 129-133
LoopExit ==
  /\ pc = "loop"
  /\ req.t = req.n
  /\ pc' = "windows"
  /\ req' = [req EXCEPT !.windows = << >>, !.i = 0]
  /\ UNCHANGED <<warehouse, stream, np_random, resp, ref>>

\* (a variant: a run ended after its first action)
RunEndAfterOne(actions, kind, j) == j + 1
RECURSIVE RunEnd(_, _, _)
\* the inner while: the first j >= i with j = len(actions) or another kind
RunEnd(actions, kind, j) ==
  IF j < Len(actions) /\ actions[j + 1].action = kind
  THEN RunEnd(actions, kind, j + 1) ELSE j

\* the sum of the rounded powers of actions[i..j-1] (0-based), added in order
RECURSIVE MwSum(_, _, _, _)
MwSum(actions, i, j, acc) ==
  IF i >= j THEN acc ELSE MwSum(actions, i + 1, j, Fadd(acc, actions[i + 1].mw))

ts_of(r, i) == r.f[i + 1].ts

\* lines 134-146: one pass of the outer while, one window
Window1(r) ==
  LET kind == r.actions[r.i + 1].action
      j == RunEnd(r.actions, kind, r.i)
      cnt == j - r.i
      mw_avg == MwSum(r.actions, r.i, j, 0)
  IN [r EXCEPT
        !.windows = Append(@, [type |-> kind,
                               start |-> ts_of(r, r.actions[r.i + 1].t),
                               end |-> ts_of(r, r.actions[j].t),
                               avg_mw |-> RoundDec(Fdiv(mw_avg,
                                            FromInt(Max2(cnt, 1))), 2)]),
        !.i = j]

WindowStep ==
  /\ pc = "windows"
  /\ req.i < Len(req.actions)
  /\ req' = Window1(req)
  /\ UNCHANGED <<warehouse, stream, np_random, pc, resp, ref>>

\* (a variant: the list returned whole)
TopAll(windows) == windows
\* windows[:5]
Top(windows) == SubSeq(windows, 1, Min2(TopN, Len(windows)))

\* lines 148-150
Finish ==
  /\ pc = "windows"
  /\ req.i >= Len(req.actions)
  /\ pc' = "done"
  /\ resp' = [op |-> "optimize", file |-> warehouse, horizon |-> req.horizon,
              zone |-> req.zone, status |-> 200,
              body |-> [expected_pnl_gbp |-> RoundDec(Fdiv(req.pnl, Thousand), 2),
                        actions |-> Top(req.windows)]]
  /\ UNCHANGED <<warehouse, stream, np_random, req, ref>>

\* the client has the response; the request's state is gone
Return ==
  /\ pc = "done"
  /\ pc' = "idle"
  /\ req' = NoReq
  /\ resp' = NoResp
  /\ UNCHANGED <<warehouse, stream, np_random, ref>>

\* an earlier forecast response is kept, to compare later ones with
Remember ==
  /\ pc = "done"
  /\ resp.op = "forecast"
  /\ ref' = resp
  /\ UNCHANGED <<warehouse, stream, np_random, pc, req, resp>>

\* another client's forecast, served meanwhile on a worker thread; its response
\* goes to that client
OtherForecast(horizon, zone) ==
  /\ np_random' = forecast_price(warehouse, horizon, zone, stream, np_random).g
  /\ UNCHANGED <<warehouse, stream, pc, req, resp, ref>>

NextForecast ==
  \/ \E n \in DatasetNames, f \in FileIds : Ingest(n, f)
  \/ \E h \in -1..MaxHorizon, z \in Zones : Forecast(h, z)
  \/ \E h \in 0..1, z \in Zones : OptimizeStart(DefaultBody, h, z)
  \/ LoopStep
  \/ LoopExit
  \/ WindowStep
  \/ Finish
  \/ Return

SpecForecast == Init /\ [][NextForecast]_vars

\* the batteries the optimiser is asked about
Batteries ==
  { DefaultBody,
    \* one step fills it, one step empties it
    Body(One, FromInt(4), FromRat(1, 10), FromRat(9, 10), FromRat(95, 100),
         FromRat(95, 100)),
    \* malformed: min_soc above max_soc
    Body(FromInt(2), One, FromRat(9, 10), FromRat(1, 10), FromRat(95, 100),
         FromRat(95, 100)),
    \* malformed: a charge efficiency of 0
    Body(FromInt(2), One, FromRat(1, 10), FromRat(9, 10), 0, FromRat(95, 100)),
    \* malformed: a negative power
    Body(FromInt(2), FromInt(-1), FromRat(1, 10), FromRat(9, 10),
         FromRat(95, 100), FromRat(95, 100)) }

OptFiles == {"flat50", "zero", "althourly", "short31"}

NextOptimize ==
  \/ \E f \in OptFiles : Ingest("price", f)
  \/ \E b \in Batteries, h \in (-1..2) \cup {MaxHorizon} : OptimizeStart(b, h, "Z1")
  \/ LoopStep
  \/ LoopExit
  \/ WindowStep
  \/ Finish
  \/ Return

SpecOptimize == Init /\ [][NextOptimize]_vars

DetFiles == {"zero", "althourly"}

NextDeterminism ==
  \/ \E f \in DetFiles : Ingest("price", f)
  \/ \E h \in 1..3 : Forecast(h, "Z1")
  \/ \E h \in 1..2 : OtherForecast(h, "Z1")
  \/ OptimizeStart(DefaultBody, 1, "Z1")
  \/ LoopStep
  \/ LoopExit
  \/ WindowStep
  \/ Finish
  \/ Remember
  \/ Return

SpecDeterminism == Init /\ [][NextDeterminism]_vars

(* ------------------------------ the claims ---------------------------- *)
InFlight == pc \in {"loop", "windows", "done"} /\ req # NoReq

\* 0 <= min_soc < max_soc <= capacity, max_power > 0, charge efficiency in (0,1]
ValidBody(b) ==
  /\ 0 <= b.min_soc /\ b.min_soc < b.max_soc /\ b.max_soc <= One
  /\ b.power_mw > 0
  /\ 0 < b.eta_in /\ b.eta_in <= One

\* C1: for a valid battery the simulated soc is within [min_soc, max_soc] when
\* the loop starts and after each of its steps.
C1_SocWithinBounds ==
  (InFlight /\ ValidBody(req.body)) =>
    (req.min_s <= req.soc /\ req.soc <= req.max_s)

\* the rows of a zone in an upload, counted without sorting them
ZoneCount(file, zone) ==
  Cardinality({i \in 1..Len(Uploads[file].rows) : Uploads[file].rows[i].zone = zone})
IsPriceFile(file) == Uploads[file].present /\ REQUIRED.price \subseteq Uploads[file].cols
NotEnough == [detail |-> "Not enough price rows"]

\* C2: on a price history, forecast fails with the insufficient-data error when
\* the zone has 31 rows or fewer and succeeds when it has 32 or more; optimize
\* fails with the same error, its response carrying no profit and no windows.
C2_InsufficientData ==
  (/\ pc = "done"
   /\ resp.op \in {"forecast", "optimize"}
   /\ IsPriceFile(resp.file)
   /\ resp.horizon >= 0) =>
    IF ZoneCount(resp.file, resp.zone) <= 31
    THEN resp.status = 400 /\ resp.body = NotEnough
    ELSE /\ resp.body # NotEnough
         /\ resp.op = "forecast" => resp.status = 200

\* C2's case: both sides of the limit have been served
C2_Witness ==
  /\ pc = "done"
  /\ resp.op = "optimize"
  /\ resp.file = "short31"
  /\ resp.zone = "Z1"
  /\ resp.body = NotEnough

IsoLeq(a, b) ==
  \/ a[1] < b[1]
  \/ a[1] = b[1] /\ a[2] < b[2]
  \/ a[1] = b[1] /\ a[2] = b[2] /\ a[3] <= b[3]

Served == pc = "done" /\ resp.op = "optimize" /\ resp.status = 200

\* C3: optimize returns at most 5 windows, each a charge or a discharge, each
\* starting no later than it ends.
C3_WindowCount ==
  Served =>
    /\ Len(resp.body.actions) <= 5
    /\ \A k \in 1..Len(resp.body.actions) :
         /\ resp.body.actions[k].type \in {"charge", "discharge"}
         /\ IsoLeq(resp.body.actions[k].start, resp.body.actions[k].end)

\* C3's case: more than 5 windows were built, one of them longer than a step
C3_Witness ==
  /\ Served
  /\ Len(req.windows) > 5
  /\ Len(resp.body.actions) = 5
  /\ \E k \in 1..5 : resp.body.actions[k].start # resp.body.actions[k].end

Flat(prices) == \A a, b \in DOMAIN prices : prices[a] = prices[b]

\* C4: on a forecast whose p50 are all the same, every rank is 0 and the default
\* battery charges at steps 0, 1, 2, ... and at no other step, stops only once
\* soc has reached max_soc, and the response has no discharge window.
C4_FlatPrices ==
  (InFlight /\ req.body = DefaultBody /\ Flat(req.prices)) =>
    /\ \A t \in 0..(req.n - 1) : Rank(req.prices, t) = 0
    /\ \A k \in 1..Len(req.actions) :
         req.actions[k].action = "charge" /\ req.actions[k].t = k - 1
    /\ (pc = "loop" /\ Len(req.actions) < req.t) => req.soc >= req.max_s
    /\ Served =>
         \A k \in 1..Len(resp.body.actions) : resp.body.actions[k].type = "charge"

\* C4's case: the battery has charged, is full, and a later step passed idle
C4_Witness ==
  /\ pc = "loop"
  /\ req.body = DefaultBody
  /\ Len(req.actions) > 1
  /\ Len(req.actions) < req.t
  /\ Flat(req.prices)
  /\ req.prices[1] = FromInt(50)

\* C5: on a zone with 32 rows or more, optimize answers 200 for every battery.
C5_NeverFails ==
  (/\ pc = "done"
   /\ resp.op = "optimize"
   /\ IsPriceFile(resp.file)
   /\ resp.horizon >= 0
   /\ ZoneCount(resp.file, resp.zone) >= 32) =>
    resp.status = 200

\* C9: the step_hours of the loop is the forecast's cadence in hours.
C9_StepHoursIsCadence ==
  pc = "loop" =>
    step_h = Fdiv(FromInt(InferStep(History[warehouse][req.zone])), FromInt(60))

ZoneTs(file, zone) ==
  {Uploads[file].rows[i].ts :
     i \in {j \in 1..Len(Uploads[file].rows) : Uploads[file].rows[j].zone = zone}}
SetMax(S) == IF S = {} THEN 0 ELSE CHOOSE t \in S : \A u \in S : u <= t
Newest(file, zone) == SetMax(ZoneTs(file, zone))
NewestTwice(file, zone) ==
  LET newest == Newest(file, zone) IN
  Cardinality({i \in 1..Len(Uploads[file].rows) :
                 /\ Uploads[file].rows[i].zone = zone
                 /\ Uploads[file].rows[i].ts = newest}) > 1
SecondNewest(file, zone) ==
  LET newest == Newest(file, zone) IN
  IF NewestTwice(file, zone) THEN newest
  ELSE SetMax(ZoneTs(file, zone) \ {newest})
\* tabulated once per upload and zone
NewestOf == [f \in FileIds |-> [z \in Zones |-> Newest(f, z)]]
CadenceOf ==
  [f \in FileIds |-> [z \in Zones |->
     IF Newest(f, z) = SecondNewest(f, z) THEN 15
     ELSE Newest(f, z) - SecondNewest(f, z)]]
Minutes(iso) == 1440 * iso[1] + 60 * iso[2] + iso[3]

ForecastServed == pc = "done" /\ resp.op = "forecast" /\ resp.status = 200

\* C7: a forecast of a positive horizon has exactly horizon points, the k-th at
\* the newest timestamp + k * step, step the gap between the two newest rows or
\* 15 minutes when that gap is zero.
C7_Timestamps ==
  (ForecastServed /\ resp.horizon > 0) =>
    /\ Len(resp.body.points) = resp.horizon
    /\ \A k \in 1..Len(resp.body.points) :
         /\ resp.body.points[k].ts =
              IsoFormat(NewestOf[resp.file][resp.zone]
                        + k * CadenceOf[resp.file][resp.zone])
         /\ k > 1 => Minutes(resp.body.points[k].ts)
                       - Minutes(resp.body.points[k - 1].ts)
                     = CadenceOf[resp.file][resp.zone]
    /\ CadenceOf[resp.file][resp.zone] > 0

\* C7's case: several points, on a history whose two newest rows coincide
C7_Witness ==
  /\ ForecastServed
  /\ resp.horizon > 2
  /\ NewestTwice(resp.file, resp.zone)

\* C8: every forecast point has 0 <= p10 <= p50 <= p90.
C8_BandOrder ==
  ForecastServed =>
    \A k \in 1..Len(resp.body.points) :
      /\ 0 <= resp.body.points[k].p10
      /\ resp.body.points[k].p10 <= resp.body.points[k].p50
      /\ resp.body.points[k].p50 <= resp.body.points[k].p90

\* C8's case: base + noise is negative, p50 and p10 are clamped to 0
C8_Witness ==
  /\ ForecastServed
  /\ BaseOf[resp.file][resp.zone] < 0
  /\ \E k \in 1..Len(resp.body.points) :
       /\ resp.body.points[k].p50 = 0
       /\ resp.body.points[k].p10 = 0
       /\ resp.body.points[k].p90 > 0

\* the places in the action list where a maximal run of one kind starts, ends
RunStarts(A) == {k \in 1..Len(A) : k = 1 \/ A[k - 1].action # A[k].action}
RunStop(A, k) ==
  CHOOSE e \in k..Len(A) :
    /\ \A m \in k..e : A[m].action = A[k].action
    /\ e = Len(A) \/ A[e + 1].action # A[k].action
\* the m-th run's start
NthStart(A, m) ==
  CHOOSE k \in RunStarts(A) : Cardinality({j \in RunStarts(A) : j <= k}) = m
IsoLess(a, b) == IsoLeq(a, b) /\ a # b

====
